---- MODULE Spec2Model ----
(***************************************************************************)
(* The iterated-register-coalescing allocator of ppci                      *)
(* (ppci/codegen/registerallocator.py, GraphColoringRegisterAllocator)     *)
(* as a state machine: one run of alloc_frame on one frame.                *)
(*                                                                         *)
(* The flow graph and the interference graph (ppci.codegen.flowgraph,      *)
(* ppci.codegen.interferencegraph) are used by the allocator but their     *)
(* code is not part of the sources at hand; they are modelled from the     *)
(* written specification (sections 3, 4.1 and 4.2).                        *)
(***************************************************************************)
EXTENDS Integers, Sequences, FiniteSets, TLC

\* Bounds of the model: an input instruction list names at most MaxRegs
\* registers and holds at most MaxMoves move instructions.
MaxRegs == 3

MaxMoves == 2

\* alloc_frame is run at most MaxRounds times on one frame.
MaxRounds == 2

\* An input of the second family holds at most MaxCopies moves.
MaxCopies == 3

\* At most MaxCalls calls are made on one RiscvFrame.
MaxCalls == 4

\* the number of definitions after which no further one is loaded
MaxDefs == 3

\* At most MaxLive registers are live over a call.
MaxLive == 2

NoReg == "none"          \* Python's None, as a node color or a register color

(***************************************************************************)
(* The architecture descriptor (arch.register_classes): a general class G  *)
(* of two registers, its subclass S holding only g0, and a class P whose   *)
(* single register p0 overlaps both g0 and g1 (a register pair).           *)
(***************************************************************************)
RegisterClasses == {"G", "S", "P"}

ArchRegs == {"g0", "g1", "p0"}

\* the regs entry of a register class
ClassRegs(kls) ==
  CASE kls = "G" -> {"g0", "g1"}
    [] kls = "S" -> {"g0"}
    [] kls = "P" -> {"p0"}

\* r.aliases of an architecture register
RegAliases(r) == IF r = "p0" THEN {"g0", "g1"} ELSE {}

\* r.color of an architecture register: its unique number
ArchColor(r) ==
  CASE r = "g0" -> 0
    [] r = "g1" -> 1
    [] r = "p0" -> 2

\* issubclass(u, v) on the register classes
issubclass(u, v) == u = v \/ (u = "S" /\ v = "G")

\* The registers of a frame: virtual registers and the architecture's own.
VRegs == {"a", "b", "c", "e", "d"}

\* the pre-colored registers an instruction list may name
PRegs == {"g0", "g1", "p0"}

Regs == VRegs \cup PRegs

\* type(vreg): the register class of a frame register
RegType(r) ==
  CASE r \in {"a", "b", "g1"} -> "G"
    [] r \in {"c", "e", "g0"} -> "S"
    [] r \in {"d", "p0"} -> "P"

\* reg.color of a frame register before allocation
InitColor(r) == IF r \in PRegs THEN ArchColor(r) ELSE -1

(***************************************************************************)
(* GraphColoringRegisterAllocator.__init__: K, cls_regs and alias          *)
(***************************************************************************)
cls_regs(kls) == ClassRegs(kls)

K(kls) == Cardinality(ClassRegs(kls))

\* self.alias, a defaultdict(set): the register itself, its aliases, and the
\* registers it is an alias of; the empty set for any other key (None).
alias(r) ==
  IF r \in ArchRegs
    THEN {r} \cup RegAliases(r) \cup {r2 \in ArchRegs : r \in RegAliases(r2)}
    ELSE {}

(***************************************************************************)
(* Generic helpers                                                         *)
(***************************************************************************)
Max(S) == CHOOSE x \in S : \A y \in S : y <= x

InSeq(x, s) == \E i \in DOMAIN s : s[i] = x

Range(s) == {s[i] : i \in DOMAIN s}

\* list.remove(x): drops the first occurrence
RECURSIVE ListRemove(_, _)
ListRemove(s, x) ==
  IF s = <<>> THEN <<>>
  ELSE IF Head(s) = x THEN Tail(s)
  ELSE <<Head(s)>> \o ListRemove(Tail(s), x)

\* list.pop(): the list without its last element
ListPop(s) == SubSeq(s, 1, Len(s) - 1)

Last(s) == s[Len(s)]

\* every order in which a Python set may be iterated
Orders(S) ==
  {s \in [1..Cardinality(S) -> S] : \A i, j \in 1..Cardinality(S) : i # j => s[i] # s[j]}

(***************************************************************************)
(* Instructions                                                            *)
(***************************************************************************)
DefIns(d) == [defined |-> {d}, used |-> {}, ismove |-> FALSE, jumps |-> {}]

MovIns(d, s) == [defined |-> {d}, used |-> {s}, ismove |-> TRUE, jumps |-> {}]

UseIns(U) == [defined |-> {}, used |-> U, ismove |-> FALSE, jumps |-> {}]

\* Two registers live at the same time: x is live when y is written.
EdgeFrag(x, y) == <<DefIns(x), DefIns(y), UseIns({x, y})>>

\* A copy d <- s whose source and destination are both read afterwards.
MoveFrag(d, s) == <<DefIns(s), MovIns(d, s), UseIns({d, s})>>

RegSeq == <<"a", "b", "c", "e", "d", "g0", "g1", "p0">>

RegIdx(r) == CHOOSE i \in 1..Len(RegSeq) : RegSeq[i] = r

PairLess(p, q) ==
  \/ RegIdx(p[1]) < RegIdx(q[1])
  \/ (p[1] = q[1] /\ RegIdx(p[2]) < RegIdx(q[2]))

RECURSIVE EdgeCode(_)
EdgeCode(E) ==
  IF E = {} THEN <<>>
  ELSE LET p == CHOOSE p \in E : \A q \in E \ {p} : PairLess(p, q)
       IN  EdgeFrag(p[1], p[2]) \o EdgeCode(E \ {p})

RECURSIVE MoveCode(_)
MoveCode(M) ==
  IF M = <<>> THEN <<>>
  ELSE MoveFrag(Head(M)[1], Head(M)[2]) \o MoveCode(Tail(M))

\* the lists of at most MaxMoves moves between registers of U, one order each
MoveLists(U) ==
  {M \in UNION {[1..n -> U \X U] : n \in 0..MaxMoves} :
     \A i \in 1..(Len(M) - 1) : ~PairLess(M[i + 1], M[i])}

\* the sets of interfering pairs of registers of U
EdgeSets(U) == SUBSET {p \in U \X U : RegIdx(p[1]) < RegIdx(p[2])}

\* the sets of registers an input instruction list may name
RegSets == {U \in SUBSET Regs : Cardinality(U) <= MaxRegs}

\* the instruction list that makes the pairs of E interfere and holds the
\* moves of M
Program(E, M) == EdgeCode(E) \o MoveCode(M)

\* mv.defined_registers[0] and mv.used_registers[0] of a move
MoveDst(c, m) == CHOOSE d \in c[m].defined : TRUE

MoveSrc(c, m) == CHOOSE s \in c[m].used : TRUE

(***************************************************************************)
(* FlowGraph: successors and liveness (specification section 4.1)          *)
(***************************************************************************)
Succ(c, i) == (IF i < Len(c) THEN {i + 1} ELSE {}) \cup c[i].jumps

LiveStep(c, L) ==
  [i \in DOMAIN c |->
    LET out == UNION {L[s].live_in : s \in Succ(c, i)}
    IN  [live_out |-> out, live_in |-> c[i].used \cup (out \ c[i].defined)]]

RECURSIVE LiveFix(_, _)
LiveFix(c, L) ==
  LET L2 == LiveStep(c, L) IN IF L2 = L THEN L ELSE LiveFix(c, L2)

calculate_liveness(c) ==
  LiveFix(c, [i \in DOMAIN c |-> [live_out |-> {}, live_in |-> {}]])

(***************************************************************************)
(* InterferenceGraph.calculate_interference (specification section 4.2)    *)
(***************************************************************************)
InsEdges(c, L, i) ==
  {{p[1], p[2]} : p \in {p \in c[i].defined \X L[i].live_out :
                           /\ p[1] # p[2]
                           /\ ~(c[i].ismove /\ p[2] \in c[i].used)}}

calculate_interference(c, L) == UNION {InsEdges(c, L, i) : i \in DOMAIN c}

RegsOf(c) == UNION {c[i].defined \cup c[i].used : i \in DOMAIN c}


(***************************************************************************)
(* ppci/wasm/wat.py: the sections a WatTupleLoader files definitions under *)
(***************************************************************************)
\* the keys of WatTupleLoader.definitions that the loaders of types,
\* functions and imports use: definition.__name__
SectionNames ==
  {"type", "import", "func", "table", "memory", "global", "export"}

VARIABLES
  round,             \* the number of the run of alloc_frame on the frame
  pc,                \* where alloc_frame is
  step,              \* the step alloc_frame took last
  error,             \* the exception alloc_frame ended with, or "none"
  code,              \* the instruction objects of the input list, by position
  instructions,      \* frame.instructions: the instructions still in the list
  regcolor,          \* reg.color of every frame register (-1: not colored)
  cfg,               \* frame.cfg: live_in and live_out of every instruction
  nodes,             \* frame.ig: the nodes of the graph (masked ones included)
  temp_map,          \* frame.ig: register -> node, as get_node answers
  temps,             \* node.temps
  color,             \* node.color
  reg_class,         \* node.reg_class
  adj,               \* frame.ig: the stored edges, as two-element sets
  masked,            \* frame.ig: the masked nodes
  node_moves,        \* node.moves
  is_colored,        \* node.is_colored
  precolored, initial, moves,
  coalescedMoves, constrainedMoves, frozenMoves, activeMoves, worklistMoves,
  spillWorklist, freeze_worklist, simplifyWorklist, select_stack,
  locVars,           \* RiscvFrame.locVars: key -> stack offset
  stacksize,         \* RiscvFrame.stacksize
  constants,         \* RiscvFrame.constants: the list of (label, value)
  literal_number,    \* RiscvFrame.literal_number
  emitted,           \* what litpool has emitted so far, in order
  trace,             \* the calls made on the frame, with what they returned
  live_regs,         \* live_regs_over(vcall), as make_call reads it
  call_ins,          \* the instructions make_call has yielded
  ip,                \* the next instruction of call_ins to execute
  xregs,             \* the machine: the value of every register
  xsp,               \* the machine: the stack pointer SP
  xmem,              \* the machine: the word at every address
  definitions,       \* WatTupleLoader.definitions: section name -> list
  loads              \* the definitions the loader has added, in order

\* the variables of the RISC-V frame and of the machine that runs its code
rv_vars ==
  <<locVars, stacksize, constants, literal_number, emitted, trace,
    live_regs, call_ins, ip, xregs, xsp, xmem>>

\* the variables of the WatTupleLoader
wat_vars == <<definitions, loads>>

vars ==
  <<round, pc, step, error, code, instructions, regcolor, cfg, nodes, temp_map, temps,
    color, reg_class, adj, masked, node_moves, is_colored, precolored, initial,
    moves, coalescedMoves, constrainedMoves, frozenMoves, activeMoves,
    worklistMoves, spillWorklist, freeze_worklist, simplifyWorklist, select_stack,
    rv_vars, wat_vars>>

\* The graph, the move sets and the node lists as one value, for the helper
\* methods, which read and change several of them; err is the exception raised.
Cur ==
  [nodes |-> nodes, temp_map |-> temp_map, temps |-> temps, color |-> color,
   reg_class |-> reg_class, adj |-> adj, masked |-> masked,
   node_moves |-> node_moves, is_colored |-> is_colored,
   precolored |-> precolored,
   coalescedMoves |-> coalescedMoves, constrainedMoves |-> constrainedMoves,
   frozenMoves |-> frozenMoves, activeMoves |-> activeMoves,
   worklistMoves |-> worklistMoves, spillWorklist |-> spillWorklist,
   freeze_worklist |-> freeze_worklist, simplifyWorklist |-> simplifyWorklist,
   select_stack |-> select_stack, err |-> "none"]

Store(S) ==
  /\ nodes' = S.nodes
  /\ temp_map' = S.temp_map
  /\ temps' = S.temps
  /\ color' = S.color
  /\ reg_class' = S.reg_class
  /\ adj' = S.adj
  /\ masked' = S.masked
  /\ node_moves' = S.node_moves
  /\ is_colored' = S.is_colored
  /\ precolored' = S.precolored
  /\ coalescedMoves' = S.coalescedMoves
  /\ constrainedMoves' = S.constrainedMoves
  /\ frozenMoves' = S.frozenMoves
  /\ activeMoves' = S.activeMoves
  /\ worklistMoves' = S.worklistMoves
  /\ spillWorklist' = S.spillWorklist
  /\ freeze_worklist' = S.freeze_worklist
  /\ simplifyWorklist' = S.simplifyWorklist
  /\ select_stack' = S.select_stack
  /\ error' = S.err
  /\ pc' = IF S.err = "none" THEN "loop" ELSE "raised"

(***************************************************************************)
(* InterferenceGraph operations (specification section 4.2)                *)
(***************************************************************************)
\* get_node
Node(S, r) == S.temp_map[r]

\* node.adjecent: the neighbours that are not masked
adjecent(S, n) == {t \in S.nodes : {n, t} \in S.adj} \ S.masked

\* has_edge: masked nodes are invisible to it
has_edge(S, t, r) == {t, r} \in S.adj /\ t \notin S.masked /\ r \notin S.masked

mask_node(S, n) == [S EXCEPT !.masked = @ \cup {n}]

unmask_node(S, n) == [S EXCEPT !.masked = @ \ {n}]

\* combine(u, v): v is merged into u and retired
ig_combine(S, u, v) ==
  LET vnbrs == {t \in S.nodes : {v, t} \in S.adj}
  IN  [S EXCEPT
        !.temps = [@ EXCEPT ![u] = @ \cup S.temps[v]],
        !.node_moves = [@ EXCEPT ![u] = @ \cup S.node_moves[v]],
        !.temp_map = [r \in DOMAIN @ |-> IF r \in S.temps[v] THEN u ELSE @[r]],
        !.adj = {e \in @ : v \notin e} \cup {{u, t} : t \in vnbrs \ {u}},
        !.nodes = @ \ {v}]

(***************************************************************************)
(* GraphColoringRegisterAllocator: the helper methods                      *)
(***************************************************************************)
\* q that counts every register of class C
q_count(B, C) == Cardinality(cls_regs(C))

q(B, C) == Max({Cardinality(alias(r) \cap cls_regs(B)) : r \in cls_regs(C)})

RECURSIVE SumQ(_, _, _)
SumQ(S, B, js) ==
  IF js = {} THEN 0
  ELSE LET j == CHOOSE j \in js : TRUE
       IN  q(B, S.reg_class[j]) + SumQ(S, B, js \ {j})

\* is_colorable with "<=" for "<"
is_colorable_le(S, node) ==
  IF S.is_colored[node] THEN TRUE
  ELSE SumQ(S, S.reg_class[node], adjecent(S, node)) <= K(S.reg_class[node])

is_colorable(S, node) ==
  IF S.is_colored[node] THEN TRUE
  ELSE LET B == S.reg_class[node]
           num_blocked == SumQ(S, B, adjecent(S, node))
       IN  num_blocked < K(B)

NodeMoves(S, n) == S.node_moves[n] \cap (S.activeMoves \cup S.worklistMoves)

is_move_related(S, n) == NodeMoves(S, n) # {}

\* EnableMoves that leaves the enabled moves in activeMoves
EnableMoves_keep_active(S, ns) ==
  LET ms == UNION {NodeMoves(S, n) : n \in ns} \cap S.activeMoves
  IN  [S EXCEPT !.worklistMoves = @ \cup ms]

EnableMoves(S, ns) ==
  LET ms == UNION {NodeMoves(S, n) : n \in ns} \cap S.activeMoves
  IN  [S EXCEPT !.activeMoves = @ \ ms, !.worklistMoves = @ \cup ms]

\* decrement_degree that never takes a node off the spill worklist
decrement_degree_never(S, m) == S

decrement_degree(S, m) ==
  IF InSeq(m, S.spillWorklist) /\ is_colorable(S, m)
    THEN LET S1 == EnableMoves(S, {m} \cup adjecent(S, m))
             S2 == [S1 EXCEPT !.spillWorklist = ListRemove(@, m)]
         IN  IF is_move_related(S2, m)
               THEN [S2 EXCEPT !.freeze_worklist = Append(@, m)]
               ELSE [S2 EXCEPT !.simplifyWorklist = Append(@, m)]
    ELSE S

\* "for m in ...: self.decrement_degree(m)", in the order ms
RECURSIVE decrement_all(_, _)
decrement_all(S, ms) ==
  IF ms = <<>> THEN S
  ELSE decrement_all(decrement_degree(S, Head(ms)), Tail(ms))

\* add_worklist that leaves u on the freeze worklist
add_worklist_keep(S, u) ==
  IF u \notin S.precolored /\ ~is_move_related(S, u) /\ is_colorable(S, u)
    THEN [S EXCEPT !.simplifyWorklist = Append(@, u)]
    ELSE S

\* add_worklist without the test for moves
add_worklist_related(S, u) ==
  IF u \notin S.precolored /\ is_colorable(S, u) /\ InSeq(u, S.freeze_worklist)
    THEN [S EXCEPT !.freeze_worklist = ListRemove(@, u),
                   !.simplifyWorklist = Append(@, u)]
    ELSE S

\* add_worklist that leaves the node where it is
add_worklist_never(S, u) == S

add_worklist(S, u) ==
  IF S.err # "none" THEN S
  ELSE IF u \notin S.precolored /\ ~is_move_related(S, u) /\ is_colorable(S, u)
    THEN IF InSeq(u, S.freeze_worklist)
           THEN [S EXCEPT !.freeze_worklist = ListRemove(@, u),
                          !.simplifyWorklist = Append(@, u)]
           ELSE [S EXCEPT !.err = "ValueError"]
    ELSE S

ok(S, t, r) == S.is_colored[t] \/ is_colorable(S, t) \/ has_edge(S, t, r)

\* any two classes pass for comparable
Comparable_any(u, v) == TRUE

Comparable(u, v) == issubclass(u, v) \/ issubclass(v, u)

\* common_reg_class that answers the larger class
common_reg_class_larger(u, v) == IF issubclass(u, v) THEN v ELSE u

\* defined where Comparable(u, v); otherwise the method raises
common_reg_class(u, v) == IF issubclass(u, v) THEN u ELSE v

\* fits_class with its arguments swapped
fits_class_swapped(u, v) == issubclass(u, v)

fits_class(u, v) == issubclass(v, u)

conservative(S, u, v) ==
  LET ns == adjecent(S, u) \cup adjecent(S, v)
      k == Cardinality({n \in ns : ~is_colorable(S, n)})
  IN  k < K(common_reg_class(S.reg_class[u], S.reg_class[v]))

\* the end of combine: the spill check on u
combine_tail(S, u) ==
  IF ~is_colorable(S, u) /\ InSeq(u, S.freeze_worklist)
    THEN [S EXCEPT !.freeze_worklist = ListRemove(@, u),
                   !.spillWorklist = Append(@, u)]
    ELSE S

\* combine(u, v): every result the iteration order of u.adjecent allows
combine(S, u, v) ==
  IF ~InSeq(v, S.freeze_worklist) /\ ~InSeq(v, S.spillWorklist)
    THEN {[S EXCEPT !.err = "ValueError"]}
  ELSE
    LET S1 == IF InSeq(v, S.freeze_worklist)
                THEN [S EXCEPT !.freeze_worklist = ListRemove(@, v)]
                ELSE [S EXCEPT !.spillWorklist = ListRemove(@, v)]
        S2 == ig_combine(S1, u, v)
    IN  IF ~Comparable(S2.reg_class[u], S2.reg_class[v])
          THEN {[S2 EXCEPT !.err = "ClassMismatch"]}
          ELSE
            LET S3 == [S2 EXCEPT !.reg_class[u] =
                         common_reg_class(S2.reg_class[u], S2.reg_class[v])]
            IN  {combine_tail(decrement_all(S3, ord), u) :
                   ord \in Orders(adjecent(S3, u))}


\* the last branch of coalesc with the move put back on the worklist
park_move_worklist(S, m) == [S EXCEPT !.worklistMoves = @ \cup {m}]

\* the last branch of coalesc: the move waits in activeMoves
park_move(S, m) == [S EXCEPT !.activeMoves = @ \cup {m}]

\* constrained without the test for two pre-colored nodes
constrained_edge_only(S, u, v) == has_edge(S, u, v)

\* the test of the second branch of coalesc
constrained(S, u, v) == v \in S.precolored \/ has_edge(S, u, v)

\* coalesc, once the move m is popped: every result it may have
coalesc(S0, m) ==
  LET S == [S0 EXCEPT !.worklistMoves = @ \ {m}]
      x == Node(S, MoveDst(code, m))
      y == Node(S, MoveSrc(code, m))
      u == IF y \in S.precolored THEN y ELSE x
      v == IF y \in S.precolored THEN x ELSE y
  IN  IF u = v
        THEN {add_worklist([S EXCEPT !.coalescedMoves = @ \cup {m}], u)}
      ELSE IF constrained(S, u, v)
        THEN {add_worklist(
                add_worklist([S EXCEPT !.constrainedMoves = @ \cup {m}], u), v)}
      ELSE IF ~S.is_colored[u] /\ ~Comparable(S.reg_class[u], S.reg_class[v])
        THEN {[S EXCEPT !.err = "ClassMismatch"]}
      ELSE IF \/ /\ S.is_colored[u]
                 /\ fits_class(S.reg_class[v], S.reg_class[u])
                 /\ \A t \in adjecent(S, v) : ok(S, t, u)
              \/ /\ ~S.is_colored[u]
                 /\ conservative(S, u, v)
        THEN {add_worklist(R, u) :
                R \in combine([S EXCEPT !.coalescedMoves = @ \cup {m}], u, v)}
      ELSE {park_move(S, m)}

\* a turn of the loop of freeze that leaves the move where it is
freeze_move_skip(S, u, m) == S

\* one turn of the loop of freeze over NodeMoves(u)
freeze_move(S, u, m) ==
  IF S.err # "none" THEN S
  ELSE
    LET S1 == IF m \in S.activeMoves
                THEN [S EXCEPT !.activeMoves = @ \ {m}]
                ELSE [S EXCEPT !.worklistMoves = @ \ {m}]
        S2 == [S1 EXCEPT !.frozenMoves = @ \cup {m}]
        src == Node(S2, MoveSrc(code, m))
        dst == Node(S2, MoveDst(code, m))
        v == IF u = dst THEN src ELSE dst
    IN  IF v \notin S2.precolored /\ ~is_move_related(S2, v) /\ is_colorable(S2, v)
          THEN IF InSeq(v, S2.freeze_worklist)
                 THEN [S2 EXCEPT !.freeze_worklist = ListRemove(@, v),
                                 !.simplifyWorklist = Append(@, v)]
                 ELSE [S2 EXCEPT !.err = "AssertionError"]
          ELSE S2

RECURSIVE freeze_moves(_, _, _)
freeze_moves(S, u, ms) ==
  IF ms = <<>> THEN S
  ELSE freeze_moves(freeze_move(S, u, Head(ms)), u, Tail(ms))

\* freeze: every result the iteration order of NodeMoves(u) allows
freeze(S) ==
  LET u == Last(S.freeze_worklist)
      S1 == [S EXCEPT !.freeze_worklist = ListPop(@),
                      !.simplifyWorklist = Append(@, u)]
  IN  {freeze_moves(S1, u, ord) : ord \in Orders(NodeMoves(S1, u))}

\* simplify that puts the node under the stack instead of on top of it
simplify_under(S) ==
  LET n == Last(S.simplifyWorklist)
      S1 == mask_node([S EXCEPT !.simplifyWorklist = ListPop(@),
                                !.select_stack = <<n>> \o @], n)
  IN  {decrement_all(S1, ord) : ord \in Orders(adjecent(S1, n))}

\* simplify: every result the iteration order of n.adjecent allows
simplify(S) ==
  LET n == Last(S.simplifyWorklist)
      S1 == mask_node([S EXCEPT !.simplifyWorklist = ListPop(@),
                                !.select_stack = Append(@, n)], n)
  IN  {decrement_all(S1, ord) : ord \in Orders(adjecent(S1, n))}

\* makeWorkList: the list a node of initial is appended to
WorkListOf(S, node) ==
  IF ~is_colorable(S, node) THEN "spill"
  ELSE IF is_move_related(S, node) THEN "freeze"
  ELSE "simplify"

RECURSIVE FilterSeq(_, _, _)
FilterSeq(S, ord, which) ==
  IF ord = <<>> THEN <<>>
  ELSE (IF WorkListOf(S, Head(ord)) = which THEN <<Head(ord)>> ELSE <<>>)
         \o FilterSeq(S, Tail(ord), which)

(***************************************************************************)
(* alloc_frame, step by step                                               *)
(***************************************************************************)
frame_unchanged == UNCHANGED <<wat_vars, rv_vars, round, code, instructions, regcolor, cfg>>

alloc_unchanged == UNCHANGED <<initial, moves>>

\* the fields of the allocator and of the frame it works on before build
AllocFresh ==
  /\ regcolor = [r \in Regs |-> InitColor(r)]
  /\ round = 1
  /\ step = "none"
  /\ error = "none"
  /\ cfg = <<>>
  /\ nodes = {}
  /\ temp_map = [r \in Regs |-> NoReg]
  /\ temps = [r \in Regs |-> {}]
  /\ color = [r \in Regs |-> NoReg]
  /\ reg_class = [r \in Regs |-> NoReg]
  /\ adj = {}
  /\ masked = {}
  /\ node_moves = [r \in Regs |-> {}]
  /\ is_colored = [r \in Regs |-> FALSE]
  /\ precolored = {}
  /\ initial = {}
  /\ moves = {}
  /\ coalescedMoves = {}
  /\ constrainedMoves = {}
  /\ frozenMoves = {}
  /\ activeMoves = {}
  /\ worklistMoves = {}
  /\ spillWorklist = <<>>
  /\ freeze_worklist = <<>>
  /\ simplifyWorklist = <<>>
  /\ select_stack = <<>>

\* a RiscvFrame nothing was called on, and a machine that runs nothing
RiscvIdle ==
  /\ locVars = <<>>
  /\ stacksize = 0
  /\ constants = <<>>
  /\ literal_number = 0
  /\ emitted = <<>>
  /\ trace = <<>>
  /\ live_regs = <<>>
  /\ call_ins = <<>>
  /\ ip = 0
  /\ xregs = <<>>
  /\ xsp = 0
  /\ xmem = <<>>

\* a WatTupleLoader nothing was loaded with: definitions is an empty
\* defaultdict(list)
LoaderIdle ==
  /\ definitions = [name \in SectionNames |-> <<>>]
  /\ loads = <<>>

Init ==
  /\ \E U \in RegSets : \E E \in EdgeSets(U) : \E M \in MoveLists(U) :
       /\ code = Program(E, M)
       /\ UNION {{p[1], p[2]} : p \in E \cup Range(M)} = U
  /\ instructions = [i \in DOMAIN code |-> i]
  /\ pc = "start"
  /\ AllocFresh
  /\ RiscvIdle
  /\ LoaderIdle

\* the register with a color number: the color of a pre-colored node
get_register(c) == CHOOSE p \in ArchRegs : ArchColor(p) = c

\* build: the division of the nodes into pre-colored and initial
precolored_nodes(ns) == {n \in ns : regcolor[n] # -1}

\* initial_nodes with the pre-colored nodes left in
initial_nodes_all(ns) == ns

initial_nodes(ns) == ns \ precolored_nodes(ns)

\* init_data and build
Build ==
  /\ pc = "start"
  /\ LET L == calculate_liveness(code)
         rs == RegsOf(code)
         mvs == {i \in DOMAIN code : code[i].ismove}
     IN  /\ cfg' = L
         /\ nodes' = rs
         /\ temp_map' = [r \in Regs |-> IF r \in rs THEN r ELSE NoReg]
         /\ temps' = [r \in Regs |-> IF r \in rs THEN {r} ELSE {}]
         /\ color' = [r \in Regs |-> IF r \in rs /\ regcolor[r] # -1
                                       THEN get_register(regcolor[r])
                                       ELSE NoReg]
         /\ reg_class' = [r \in Regs |-> IF r \in rs THEN RegType(r) ELSE NoReg]
         /\ is_colored' = [r \in Regs |-> r \in rs /\ regcolor[r] # -1]
         /\ adj' = calculate_interference(code, L)
         /\ masked' = {}
         /\ precolored' = precolored_nodes(rs)
         /\ initial' = initial_nodes(rs)
         /\ moves' = mvs
         /\ node_moves' = [r \in Regs |->
              {m \in mvs : r = MoveSrc(code, m) \/ r = MoveDst(code, m)}]
  /\ coalescedMoves' = {}
  /\ constrainedMoves' = {}
  /\ frozenMoves' = {}
  /\ activeMoves' = {}
  /\ worklistMoves' = {}
  /\ pc' = "built"
  /\ step' = "build"
  /\ UNCHANGED <<wat_vars, rv_vars, round, error, code, instructions, regcolor, spillWorklist,
                 freeze_worklist, simplifyWorklist, select_stack>>

\* makeWorkList that leaves the select stack as the last call left it
makeWorkList_keep_stack ==
  /\ pc = "built"
  /\ worklistMoves' = moves
  /\ select_stack' = select_stack
  /\ \E ord \in Orders(initial) :
       LET S == [Cur EXCEPT !.worklistMoves = moves]
       IN  /\ spillWorklist' = FilterSeq(S, ord, "spill")
           /\ freeze_worklist' = FilterSeq(S, ord, "freeze")
           /\ simplifyWorklist' = FilterSeq(S, ord, "simplify")
  /\ initial' = {}
  /\ pc' = "loop"
  /\ step' = "makeWorkList"
  /\ UNCHANGED <<wat_vars, rv_vars, round, error, code, instructions, regcolor, cfg, nodes, temp_map,
                 temps, color, reg_class, adj, masked, node_moves, is_colored,
                 precolored, moves, coalescedMoves, constrainedMoves,
                 frozenMoves, activeMoves>>

makeWorkList ==
  /\ pc = "built"
  /\ worklistMoves' = moves
  /\ select_stack' = <<>>
  /\ \E ord \in Orders(initial) :
       LET S == [Cur EXCEPT !.worklistMoves = moves]
       IN  /\ spillWorklist' = FilterSeq(S, ord, "spill")
           /\ freeze_worklist' = FilterSeq(S, ord, "freeze")
           /\ simplifyWorklist' = FilterSeq(S, ord, "simplify")
  /\ initial' = {}
  /\ pc' = "loop"
  /\ step' = "makeWorkList"
  /\ UNCHANGED <<wat_vars, rv_vars, round, error, code, instructions, regcolor, cfg, nodes, temp_map,
                 temps, color, reg_class, adj, masked, node_moves, is_colored,
                 precolored, moves, coalescedMoves, constrainedMoves,
                 frozenMoves, activeMoves>>

\* the conditions of the if/elif chain of the main loop
CanSimplify == simplifyWorklist # <<>>

\* CanCoalesc as an "if" of its own instead of an "elif"
CanCoalesc_if == worklistMoves # {}

CanCoalesc == ~CanSimplify /\ worklistMoves # {}

CanFreeze == ~CanSimplify /\ ~(worklistMoves # {}) /\ freeze_worklist # <<>>

CanSpill ==
  /\ ~CanSimplify /\ ~(worklistMoves # {}) /\ ~(freeze_worklist # <<>>)
  /\ spillWorklist # <<>>

CanBreak ==
  /\ ~CanSimplify /\ ~(worklistMoves # {}) /\ ~(freeze_worklist # <<>>)
  /\ ~(spillWorklist # <<>>)

Simplify ==
  /\ pc = "loop"
  /\ CanSimplify
  /\ \E R \in simplify(Cur) : Store(R)
  /\ step' = "simplify"
  /\ frame_unchanged /\ alloc_unchanged

Coalesc ==
  /\ pc = "loop"
  /\ CanCoalesc
  /\ \E m \in worklistMoves : \E R \in coalesc(Cur, m) : Store(R)
  /\ step' = "coalesc"
  /\ frame_unchanged /\ alloc_unchanged

Freeze ==
  /\ pc = "loop"
  /\ CanFreeze
  /\ \E R \in freeze(Cur) : Store(R)
  /\ step' = "freeze"
  /\ frame_unchanged /\ alloc_unchanged

\* raise NotImplementedError('Spill not implemented')
Spill ==
  /\ pc = "loop"
  /\ CanSpill
  /\ pc' = "raised"
  /\ error' = "NotImplementedError"
  /\ step' = "spill"
  /\ UNCHANGED <<wat_vars, rv_vars, round, code, instructions, regcolor, cfg, nodes, temp_map, temps,
                 color, reg_class, adj, masked, node_moves, is_colored,
                 precolored, initial, moves, coalescedMoves, constrainedMoves,
                 frozenMoves, activeMoves, worklistMoves, spillWorklist,
                 freeze_worklist, simplifyWorklist, select_stack>>

\* break
Break ==
  /\ pc = "loop"
  /\ CanBreak
  /\ pc' = "assign"
  /\ step' = "break"
  /\ UNCHANGED <<wat_vars, rv_vars, round, error, code, instructions, regcolor, cfg, nodes, temp_map,
                 temps, color, reg_class, adj, masked, node_moves, is_colored,
                 precolored, initial, moves, coalescedMoves, constrainedMoves,
                 frozenMoves, activeMoves, worklistMoves, spillWorklist,
                 freeze_worklist, simplifyWorklist, select_stack>>

\* ok_regs that looks at the pre-colored neighbours only
ok_regs_precolored(S, node) ==
  cls_regs(S.reg_class[node]) \
    UNION {alias(S.color[m]) : m \in adjecent(S, node) \cap S.precolored}

\* assign_colors: the registers a popped node may get
ok_regs(S, node) ==
  cls_regs(S.reg_class[node]) \ UNION {alias(S.color[m]) : m \in adjecent(S, node)}

\* one turn of the loop of assign_colors
AssignColor ==
  /\ pc = "assign"
  /\ select_stack # <<>>
  /\ LET node == Last(select_stack)
         S == unmask_node(Cur, node)
     IN  /\ select_stack' = ListPop(select_stack)
         /\ masked' = S.masked
         /\ IF ok_regs(S, node) = {}
              THEN /\ pc' = "raised"
                   /\ error' = "AssertionError"
                   /\ color' = color
              ELSE /\ \E reg \in ok_regs(S, node) : color' = [color EXCEPT ![node] = reg]
                   /\ UNCHANGED <<pc, error>>
  /\ step' = "assign_colors"
  /\ UNCHANGED <<wat_vars, rv_vars, round, code, instructions, regcolor, cfg, nodes, temp_map, temps,
                 reg_class, adj, node_moves, is_colored, precolored, initial,
                 moves, coalescedMoves, constrainedMoves, frozenMoves,
                 activeMoves, worklistMoves, spillWorklist, freeze_worklist,
                 simplifyWorklist>>

\* remove_moves that also drops the frozen moves
remove_moves_frozen(ins, ms) ==
  SelectSeq(ins, LAMBDA i : i \notin (ms \cup frozenMoves))

\* "for move in ms: ins.remove(move)"
RECURSIVE remove_moves(_, _)
remove_moves(ins, ms) ==
  IF ms = {} THEN ins
  ELSE LET move == CHOOSE move \in ms : TRUE
       IN  remove_moves(ListRemove(ins, move), ms \ {move})

\* remove_redundant_moves, once the select stack is empty
remove_redundant_moves ==
  /\ pc = "assign"
  /\ select_stack = <<>>
  /\ instructions' = remove_moves(instructions, coalescedMoves)
  /\ pc' = "apply"
  /\ step' = "remove_redundant_moves"
  /\ UNCHANGED <<wat_vars, rv_vars, round, error, code, regcolor, cfg, nodes, temp_map, temps, color,
                 reg_class, adj, masked, node_moves, is_colored, precolored,
                 initial, moves, coalescedMoves, constrainedMoves, frozenMoves,
                 activeMoves, worklistMoves, spillWorklist, freeze_worklist,
                 simplifyWorklist, select_stack>>

\* apply_colors: the registers whose assertion fails
ApplyConflicts ==
  {r \in Regs : /\ temp_map[r] \in nodes
                /\ regcolor[r] # -1
                /\ \/ color[temp_map[r]] = NoReg
                   \/ regcolor[r] # ArchColor(color[temp_map[r]])}

apply_colors ==
  /\ pc = "apply"
  /\ IF ApplyConflicts # {}
       THEN /\ pc' = "raised"
            /\ error' = "AssertionError"
            /\ regcolor' = regcolor
       ELSE /\ pc' = "done"
            /\ error' = error
            /\ regcolor' = [r \in Regs |->
                 IF temp_map[r] \in nodes /\ regcolor[r] = -1
                   THEN ArchColor(color[temp_map[r]])
                   ELSE regcolor[r]]
  /\ step' = "apply_colors"
  /\ UNCHANGED <<wat_vars, rv_vars, round, code, instructions, cfg, nodes, temp_map, temps, color,
                 reg_class, adj, masked, node_moves, is_colored, precolored,
                 initial, moves, coalescedMoves, constrainedMoves, frozenMoves,
                 activeMoves, worklistMoves, spillWorklist, freeze_worklist,
                 simplifyWorklist, select_stack>>

\* alloc_frame is called again on the frame it returned from: the instructions
\* left in the list, with the colors the registers have now, are its input.
alloc_frame_again ==
  /\ pc = "done"
  /\ round < MaxRounds
  /\ round' = round + 1
  /\ code' = [i \in DOMAIN instructions |-> code[instructions[i]]]
  /\ instructions' = [i \in DOMAIN instructions |-> i]
  /\ pc' = "start"
  /\ step' = "none"
  /\ UNCHANGED <<wat_vars, rv_vars, error, regcolor, cfg, nodes, temp_map, temps, color,
                 reg_class, adj, masked, node_moves, is_colored, precolored,
                 initial, moves, coalescedMoves, constrainedMoves, frozenMoves,
                 activeMoves, worklistMoves, spillWorklist, freeze_worklist,
                 simplifyWorklist, select_stack>>

Next ==
  \/ alloc_frame_again
  \/ Build
  \/ makeWorkList
  \/ Simplify
  \/ Coalesc
  \/ Freeze
  \/ Spill
  \/ Break
  \/ AssignColor
  \/ remove_redundant_moves
  \/ apply_colors

Spec == Init /\ [][Next]_vars


\* A second family of inputs, with more moves between fewer registers: the
\* virtual registers a, b (class G) and c, e (class S), any interference
\* between them, and at most MaxCopies moves, each a <- b or c <- e.
CopyRegs == {"a", "b", "c", "e"}

CopyPairs == {<<"a", "b">>, <<"c", "e">>}

CopyLists ==
  {M \in UNION {[1..n -> CopyPairs] : n \in 0..MaxCopies} :
     \A i \in 1..(Len(M) - 1) : ~PairLess(M[i + 1], M[i])}

CopyInit ==
  /\ \E E \in EdgeSets(CopyRegs) : \E M \in CopyLists : code = Program(E, M)
  /\ instructions = [i \in DOMAIN code |-> i]
  /\ pc = "start"
  /\ AllocFresh
  /\ RiscvIdle
  /\ LoaderIdle

CopySpec == CopyInit /\ [][Next]_vars

(***************************************************************************)
(* RiscvFrame (ppci/arch/riscv/frame.py): stack slots and the literal pool *)
(***************************************************************************)
\* the keys, sizes and values the calls are made with: the values are an
\* integer, a string and a byte sequence
Keys == {"x", "y"}

Sizes == {4, 8}

Values == {"int_7", "str_a", "bytes_ab"}

\* type(value)
ValueType(v) ==
  CASE v = "int_7" -> "int"
    [] v = "str_a" -> "str"
    [] v = "bytes_ab" -> "bytes"

\* the bytes of a byte sequence
ValueBytes(v) == IF v = "bytes_ab" THEN <<"a", "b">> ELSE <<>>

\* the variables the calls on the frame leave alone
loader_unchanged == UNCHANGED wat_vars

machine_unchanged == UNCHANGED <<live_regs, call_ins, ip, xregs, xsp, xmem>>

allocator_unchanged ==
  UNCHANGED <<round, pc, step, error, code, instructions, regcolor, cfg, nodes,
              temp_map, temps, color, reg_class, adj, masked, node_moves,
              is_colored, precolored, initial, moves, coalescedMoves,
              constrainedMoves, frozenMoves, activeMoves, worklistMoves,
              spillWorklist, freeze_worklist, simplifyWorklist, select_stack>>

\* one entry of trace: the call, and stacksize when it returned
Call(op, arg, size, ret) ==
  [op |-> op, arg |-> arg, size |-> size, ret |-> ret, stack |-> stacksize']

\* alloc_var that takes every key for a new one
alloc_var_known_never(lvar) == FALSE

\* "lvar in self.locVars"
alloc_var_known(lvar) == lvar \in DOMAIN locVars

alloc_var(lvar, size) ==
  /\ Len(trace) < MaxCalls
  /\ IF alloc_var_known(lvar)
       THEN UNCHANGED <<locVars, stacksize>>
       ELSE /\ locVars' = [k \in DOMAIN locVars \cup {lvar} |->
                             IF k = lvar THEN stacksize ELSE locVars[k]]
            /\ stacksize' = stacksize + size
  /\ trace' = Append(trace, Call("alloc_var", lvar, size, locVars'[lvar]))
  /\ UNCHANGED <<constants, literal_number, emitted>>
  /\ machine_unchanged /\ allocator_unchanged /\ loader_unchanged

\* add_constant that never finds the value in the pool
find_constant_none(value) == 0

\* the loop of add_constant: the place of the first equal value, or 0
find_constant(value) ==
  IF \E i \in DOMAIN constants : constants[i].val = value
    THEN CHOOSE i \in DOMAIN constants :
           /\ constants[i].val = value
           /\ \A j \in 1..(i - 1) : constants[j].val # value
    ELSE 0

\* the label '<name>_literal_<n>' of a frame, as its number n
add_constant(value) ==
  /\ Len(trace) < MaxCalls
  /\ UNCHANGED <<locVars, stacksize, emitted>>
  /\ LET i == find_constant(value)
     IN  IF i # 0
           THEN /\ trace' = Append(trace, Call("add_constant", value, 0, constants[i].lab))
                /\ UNCHANGED <<constants, literal_number>>
           ELSE /\ ValueType(value) \in {"str", "int", "bytes"}
                /\ constants' = Append(constants, [lab |-> literal_number, val |-> value])
                /\ literal_number' = literal_number + 1
                /\ trace' = Append(trace, Call("add_constant", value, 0, literal_number))
  /\ machine_unchanged /\ allocator_unchanged /\ loader_unchanged

\* what litpool and epilogue yield
Item(kind, lab, val) == [kind |-> kind, lab |-> lab, val |-> val]

\* litpool: what it yields for one constant
litpool_one(c) ==
  <<Item("Label", c.lab, c.val)>> \o
    (IF ValueType(c.val) \in {"int", "str"}
       THEN <<Item("dcd", c.lab, c.val)>>
       ELSE [k \in DOMAIN ValueBytes(c.val) |-> Item("Db", c.lab, ValueBytes(c.val)[k])]
              \o <<Item("Alignment", 0, "4")>>)

RECURSIVE litpool_all(_)
litpool_all(cs) ==
  IF cs = <<>> THEN <<>> ELSE litpool_one(Head(cs)) \o litpool_all(Tail(cs))

\* litpool, run to its end: everything it yields for the pool cs, which it
\* empties
litpool(cs) ==
  (IF cs # <<>> THEN <<Item("Alignment", 0, "4")>> ELSE <<>>) \o litpool_all(cs)

\* between_blocks whose litpool leaves the constants in the pool
between_blocks_keep ==
  /\ Len(trace) < MaxCalls
  /\ emitted' = emitted \o litpool(constants)
  /\ constants' = constants
  /\ UNCHANGED <<locVars, stacksize, literal_number>>
  /\ trace' = Append(trace, Call("between_blocks", "", 0, 0))
  /\ machine_unchanged /\ allocator_unchanged /\ loader_unchanged

between_blocks ==
  /\ Len(trace) < MaxCalls
  /\ emitted' = emitted \o litpool(constants)
  /\ constants' = <<>>
  /\ UNCHANGED <<locVars, stacksize, literal_number>>
  /\ trace' = Append(trace, Call("between_blocks", "", 0, 0))
  /\ machine_unchanged /\ allocator_unchanged /\ loader_unchanged

\* epilogue, run to its end; RegisterSet({LR, SP}) is iterated in some order
epilogue ==
  /\ Len(trace) < MaxCalls
  /\ \E ord \in Orders({"LR", "SP"}) :
       emitted' = emitted
         \o (IF stacksize > 0 THEN <<Item("Add", stacksize, "SP")>> ELSE <<>>)
         \o [k \in DOMAIN ord |-> Item("Lw", 4 * (k - 1), ord[k])]
         \o litpool(constants)
         \o <<Item("Alignment", 0, "4")>>
  /\ constants' = <<>>
  /\ UNCHANGED <<locVars, stacksize, literal_number>>
  /\ trace' = Append(trace, Call("epilogue", "", 0, 0))
  /\ machine_unchanged /\ allocator_unchanged /\ loader_unchanged

\* a frame right after RiscvFrame.__init__; the allocator is not run
FrameInit ==
  /\ code = <<>>
  /\ instructions = <<>>
  /\ pc = "idle"
  /\ AllocFresh
  /\ RiscvIdle
  /\ LoaderIdle

FrameNext ==
  \/ \E lvar \in Keys : \E size \in Sizes : alloc_var(lvar, size)
  \/ \E value \in Values : add_constant(value)
  \/ between_blocks
  \/ epilogue

FrameSpec == FrameInit /\ [][FrameNext]_vars


(***************************************************************************)
(* RiscvFrame.make_call and the machine that runs what it yields           *)
(***************************************************************************)
\* some of the allocatable registers of the frame
MachRegs == {"R9", "R18", "R19"}

\* live_regs_over(vcall): any list of distinct registers
LiveLists ==
  UNION {Orders(T) : T \in {U \in SUBSET MachRegs : Cardinality(U) <= MaxLive}}

\* the words of the stack; the stack pointer starts at SP0
Addrs == {4 * k : k \in 0..(MaxLive + 1)}

SP0 == 4 * (MaxLive + 1)

\* what the registers and the memory hold when the sequence starts, and
\* what a callee leaves where it writes
RegBefore(r) == CASE r = "R9" -> 109 [] r = "R18" -> 118 [] r = "R19" -> 119 [] OTHER -> 100

MemBefore(a) == 200 + a

Clobbered == 0 - 1

Ins(op, reg, off) == [op |-> op, reg |-> reg, off |-> off]

\* the instructions make_call yields for the live registers live
make_call_seq(live) ==
  LET n == Len(live)
  IN  [k \in 1..n |-> Ins("Sw", live[k], 0 - 4 * (k - 1))]
        \o <<Ins("Add", "SP", 0 - 4 * n)>>
        \o <<Ins("Bl", "LR", 0)>>
        \o [j \in 1..n |-> Ins("Lw", live[n + 1 - j], 4 * (j - 1))]
        \o <<Ins("Add", "SP", 4 * n)>>

frame_pool_unchanged ==
  UNCHANGED <<locVars, stacksize, constants, literal_number, emitted, trace>>

\* make_call, run to its end, on a machine about to run what it yields
make_call ==
  /\ call_ins = <<>>
  /\ ip = 0
  /\ \E live \in LiveLists :
       /\ live_regs' = live
       /\ call_ins' = make_call_seq(live)
  /\ ip' = 1
  /\ xregs' = [r \in MachRegs \cup {"LR"} |-> RegBefore(r)]
  /\ xsp' = SP0
  /\ xmem' = [a \in Addrs |-> MemBefore(a)]
  /\ frame_pool_unchanged /\ allocator_unchanged /\ loader_unchanged

\* Sw(SP, register, i): the register is stored to the word at SP + i
exec_Sw ==
  /\ ip \in DOMAIN call_ins
  /\ call_ins[ip].op = "Sw"
  /\ xmem' = [xmem EXCEPT ![xsp + call_ins[ip].off] = xregs[call_ins[ip].reg]]
  /\ ip' = ip + 1
  /\ UNCHANGED <<live_regs, call_ins, xregs, xsp>>
  /\ frame_pool_unchanged /\ allocator_unchanged /\ loader_unchanged

\* Lw(SP, register, i): the register is loaded from the word at SP + i
exec_Lw ==
  /\ ip \in DOMAIN call_ins
  /\ call_ins[ip].op = "Lw"
  /\ xregs' = [xregs EXCEPT ![call_ins[ip].reg] = xmem[xsp + call_ins[ip].off]]
  /\ ip' = ip + 1
  /\ UNCHANGED <<live_regs, call_ins, xmem, xsp>>
  /\ frame_pool_unchanged /\ allocator_unchanged /\ loader_unchanged

\* Add(SP, SP, i)
exec_Add ==
  /\ ip \in DOMAIN call_ins
  /\ call_ins[ip].op = "Add"
  /\ xsp' = xsp + call_ins[ip].off
  /\ ip' = ip + 1
  /\ UNCHANGED <<live_regs, call_ins, xregs, xmem>>
  /\ frame_pool_unchanged /\ allocator_unchanged /\ loader_unchanged

\* Bl(LR, function): the callee runs and returns; it may overwrite any
\* register and the memory below its entry SP, and keeps SP
exec_Bl ==
  /\ ip \in DOMAIN call_ins
  /\ call_ins[ip].op = "Bl"
  /\ \E C \in SUBSET MachRegs :
       xregs' = [r \in DOMAIN xregs |->
                   IF r \in C THEN Clobbered
                   ELSE IF r = "LR" THEN ip + 1 ELSE xregs[r]]
  /\ \E below \in BOOLEAN :
       xmem' = [a \in Addrs |-> IF below /\ a < xsp THEN Clobbered ELSE xmem[a]]
  /\ ip' = ip + 1
  /\ UNCHANGED <<live_regs, call_ins, xsp>>
  /\ frame_pool_unchanged /\ allocator_unchanged /\ loader_unchanged

CallNext ==
  \/ make_call
  \/ exec_Sw
  \/ exec_Add
  \/ exec_Bl
  \/ exec_Lw

CallSpec == FrameInit /\ [][CallNext]_vars


(***************************************************************************)
(* Properties                                                              *)
(***************************************************************************)
\* the architecture register of the color number of frame register r
RegOf(r) == IF regcolor[r] = -1 THEN NoReg ELSE get_register(regcolor[r])

Returned == pc = "done"

\* the input list: code, in order
InputList == [i \in DOMAIN code |-> i]

\* C1: after alloc_frame returns, two adjacent nodes that are not both
\* pre-colored have colors that do not alias (so they differ).
C1_AdjacentColorsApart ==
  Returned =>
    \A n \in nodes : \A m \in nodes :
      ({n, m} \in adj /\ ~(is_colored[n] /\ is_colored[m]))
        => color[n] \notin alias(color[m])

\* a returned run with a combined, colored node next to another node
C1_Witness ==
  /\ Returned
  /\ \E n \in nodes : \E m \in nodes :
       /\ {n, m} \in adj
       /\ ~is_colored[n]
       /\ Cardinality(temps[n]) > 1

\* C2: after alloc_frame returns, a register written by an instruction and a
\* different register live out of that instruction have colors that do not
\* alias.
C2_ColoringValid ==
  Returned =>
    \A i \in DOMAIN code : \A a \in code[i].defined : \A b \in cfg[i].live_out :
      a # b => RegOf(a) \notin alias(RegOf(b))

\* C3: a pre-colored register never changes color, also as part of a node a
\* virtual register was combined into, and apply_colors raises no assertion.
C3_PrecoloredKept ==
  /\ \A r \in Regs : InitColor(r) # -1 => regcolor[r] = InitColor(r)
  /\ \A n \in precolored :
       InitColor(n) # -1 => n \in nodes /\ color[n] = get_register(InitColor(n))
  /\ ~(pc = "raised" /\ step = "apply_colors")

\* a returned run in which a virtual register was combined into a
\* pre-colored node
C3_Witness ==
  /\ Returned
  /\ \E n \in precolored : temps[n] \cap VRegs # {}

\* C4: after alloc_frame returns, every node's color is a register of the
\* node's class, and every register's color is a register of its own class.
C4_ColorInClass ==
  Returned =>
    /\ \A n \in nodes : color[n] \in cls_regs(reg_class[n])
    /\ \A r \in RegsOf(code) : RegOf(r) \in cls_regs(RegType(r))

\* a returned run with a node whose class was narrowed by combine
C4_Witness ==
  /\ Returned
  /\ \E n \in nodes : \E r \in temps[n] : reg_class[n] # RegType(r)

\* the five move sets
MoveSets ==
  <<worklistMoves, activeMoves, coalescedMoves, constrainedMoves, frozenMoves>>

\* C5: once makeWorkList is done, and after every step that did not raise,
\* every move of the frame is in exactly one of the five move sets.
C5_MovesPartitioned ==
  pc \in {"loop", "assign", "apply", "done"} =>
    /\ UNION {MoveSets[i] : i \in 1..5} = moves
    /\ \A i \in 1..5 : \A j \in 1..5 : i # j => MoveSets[i] \cap MoveSets[j] = {}

\* in the loop, after a freeze, with a frozen and a move still waiting
C5_Witness ==
  /\ pc = "loop"
  /\ step = "freeze"
  /\ frozenMoves # {}
  /\ activeMoves \cup worklistMoves # {}

\* C6: after alloc_frame returns, the instruction list is the input list
\* without the coalesced moves, in the input's order.
C6_OnlyCoalescedRemoved ==
  Returned =>
    instructions = SelectSeq(InputList, LAMBDA i : i \notin coalescedMoves)

\* a returned run that removed a move and kept another one
C6_Witness ==
  /\ Returned
  /\ coalescedMoves # {}
  /\ constrainedMoves \cup frozenMoves # {}

\* C7: a step of the main loop is taken only when every step of higher
\* priority has no work.
C7_Priority ==
  [][pc = "loop" =>
       /\ step' = "coalesc" => simplifyWorklist = <<>>
       /\ step' = "freeze" => simplifyWorklist = <<>> /\ worklistMoves = {}
       /\ step' = "spill" =>
            simplifyWorklist = <<>> /\ worklistMoves = {} /\ freeze_worklist = <<>>
       /\ step' = "break" =>
            /\ simplifyWorklist = <<>> /\ worklistMoves = {}
            /\ freeze_worklist = <<>> /\ spillWorklist = <<>>]_vars

\* a freeze was taken while the spill worklist had work
C7_Witness ==
  /\ step = "freeze"
  /\ spillWorklist # <<>>


\* What the main loop runs out of, most significant first: the nodes still in
\* the graph view, the moves not yet settled, the moves on the worklist, the
\* nodes on the freeze worklist. Each is at most the number of registers or
\* instructions, which stays below RankBase.
RankBase == 3 * (MaxRegs * MaxRegs + MaxMoves) + 1

Rank ==
  LET n1 == Cardinality(nodes \ masked)
      n2 == Cardinality(worklistMoves \cup activeMoves)
      n3 == Cardinality(worklistMoves)
      n4 == Len(freeze_worklist)
  IN  ((n1 * RankBase + n2) * RankBase + n3) * RankBase + n4

\* C8: the main loop ends, by the break or by an exception, whatever order
\* nodes and moves are taken in: every turn of the loop that does not leave
\* it lowers Rank, a natural number.
C8_Terminates == [][(pc = "loop" /\ pc' = "loop") => Rank' < Rank]_vars

\* a move that had waited in activeMoves is back on the worklist: the
\* worklist was empty when the freeze that froze a move ran
C8_Witness ==
  /\ pc = "loop"
  /\ frozenMoves # {}
  /\ worklistMoves # {}

\* K + 1 registers, not pre-colored, of one class of K registers that interfere
\* pairwise
HasClique ==
  \E kls \in RegisterClasses :
    \E Q \in SUBSET {r \in RegsOf(code) \ precolored : RegType(r) = kls} :
      /\ Cardinality(Q) = K(kls) + 1
      /\ \A x \in Q : \A y \in Q : x # y => {x, y} \in adj

\* C9: with the simplify, move and freeze worklists empty and the spill
\* worklist not, the loop raises the spill error, and then no instruction is
\* removed and no virtual register or node has a color; K + 1 pairwise
\* interfering virtual registers of a class of K registers, without moves, end so.
C9_SpillRaised ==
  /\ [][(/\ pc = "loop"
         /\ simplifyWorklist = <<>> /\ worklistMoves = {} /\ freeze_worklist = <<>>
         /\ spillWorklist # <<>>)
          => (pc' = "raised" /\ error' = "NotImplementedError")]_vars
  /\ []((pc = "raised" /\ error = "NotImplementedError") =>
          /\ instructions = InputList
          /\ \A r \in VRegs : regcolor[r] = -1
          /\ \A n \in nodes \ precolored : color[n] = NoReg)
  /\ []((pc \notin {"start", "built", "loop"} /\ moves = {} /\ HasClique) =>
          (pc = "raised" /\ error = "NotImplementedError"))

\* the spill error on an instruction list without moves that has such registers
C9_Witness ==
  /\ pc = "raised"
  /\ error = "NotImplementedError"
  /\ moves = {}
  /\ HasClique

\* every register of the list is pre-colored
AllPrecolored == RegsOf(code) # {} /\ RegsOf(code) \subseteq PRegs

\* two pre-colored nodes interfere and their colors alias
PrecoloredConflict ==
  \E n \in precolored : \E m \in precolored :
    {n, m} \in adj /\ color[n] \in alias(color[m])

\* C10 as claimed: with only pre-colored registers, two of which conflict,
\* alloc_frame ends with the spill error.
C10_ConflictRaisesSpill ==
  (AllPrecolored /\ PrecoloredConflict /\ pc \in {"done", "raised"}) =>
    (pc = "raised" /\ error = "NotImplementedError")

\* C10 as amended: with only pre-colored registers, two of which conflict,
\* alloc_frame raises nothing: the loop never finds the spill branch, no
\* assertion fails, and every register keeps its color.
C10_ConflictReturns ==
  (AllPrecolored /\ PrecoloredConflict) =>
    /\ pc # "raised"
    /\ pc = "loop" => ~CanSpill
    /\ \A r \in Regs : regcolor[r] = InitColor(r)

\* a run on conflicting pre-colored registers that returned
C10_Witness ==
  /\ Returned
  /\ AllPrecolored
  /\ PrecoloredConflict

\* every register of the frame had a color when this run of alloc_frame began
StartedColored == AllPrecolored \/ round > 1

\* the moves of a register to itself
SelfMoves ==
  {m \in DOMAIN code : code[m].ismove /\ MoveDst(code, m) = MoveSrc(code, m)}

\* C11 as claimed: alloc_frame on a frame whose registers are all colored
\* raises nothing, does not find the spill branch, puts no move in
\* coalescedMoves and leaves the instruction list as it was.
C11_RerunNoOp ==
  StartedColored =>
    /\ pc # "raised"
    /\ pc = "loop" => ~CanSpill
    /\ pc # "start" => coalescedMoves = {}
    /\ instructions = InputList

\* C11 as amended: alloc_frame on a frame whose registers are all colored
\* raises nothing, does not find the spill branch, changes no register's color
\* and removes the moves of a register to itself and nothing else; a frame
\* that an earlier alloc_frame returned holds no such move, so that nothing
\* is removed from it.
C11_RerunKeeps ==
  /\ [](StartedColored =>
          /\ pc # "raised"
          /\ pc = "loop" => ~CanSpill
          /\ pc # "start" => coalescedMoves \subseteq SelfMoves
          /\ pc \in {"assign", "apply", "done"} => coalescedMoves = SelfMoves
          /\ pc = "done" =>
               instructions = SelectSeq(InputList, LAMBDA i : i \notin SelfMoves)
          /\ round > 1 => SelfMoves = {} /\ instructions = InputList)
  /\ [][StartedColored => regcolor' = regcolor]_vars

\* a second run has returned on a frame that still holds a move, between
\* registers that the first run gave one color
C11_Witness ==
  /\ round > 1
  /\ Returned
  /\ \E m \in moves : regcolor[MoveDst(code, m)] = regcolor[MoveSrc(code, m)]
  /\ \E r \in RegsOf(code) : InitColor(r) = -1

\* how often n is in the list s
Count(s, n) == Cardinality({i \in DOMAIN s : s[i] = n})

\* the number of places the node of register n is in
Places(n) ==
  Count(simplifyWorklist, n) + Count(freeze_worklist, n) + Count(spillWorklist, n)
    + Count(select_stack, n) + (IF n \notin nodes THEN 1 ELSE 0)

C13_ConstrainedNotCombined ==
  [][(pc = "loop" /\ step' = "coalesc") =>
       /\ \A m \in worklistMoves \ worklistMoves' :
            LET x == temp_map[MoveDst(code, m)]
                y == temp_map[MoveSrc(code, m)]
            IN  (x # y /\ ({x, y} \subseteq precolored \/ {x, y} \in adj))
                  => (m \in constrainedMoves' /\ nodes' = nodes)
       /\ \A v \in nodes \ nodes' :
            LET u == temp_map'[v]
            IN  ~({u, v} \subseteq precolored) /\ {u, v} \notin adj]_vars

\* after a coalesc step that found a move between two adjacent nodes, in a
\* run that has combined a node away
C13_Witness ==
  /\ step = "coalesc"
  /\ \E m \in constrainedMoves :
       LET x == temp_map[MoveDst(code, m)]
           y == temp_map[MoveSrc(code, m)]
       IN  x # y /\ {x, y} \in adj /\ ~({x, y} \subseteq precolored)
  /\ \E n \in RegsOf(code) : n \notin nodes

\* C14: simplify pushes its node on top of select_stack, a node is pushed
\* once, and nothing else in the loop touches the stack; at the exit of the
\* loop the stack holds every node that is neither pre-colored nor combined
\* away; assign_colors colors the top node, which had no color, and pops it,
\* so that nodes are colored in the reverse of the order of the pushes, each
\* once, and all of them have a color when alloc_frame returns.
C14_StackOrder ==
  /\ [][pc = "loop" =>
          IF step' = "simplify"
            THEN LET n == Last(simplifyWorklist)
                 IN  /\ n \notin Range(select_stack)
                     /\ color[n] = NoReg
                     /\ select_stack' = Append(select_stack, n)
            ELSE select_stack' = select_stack]_vars
  /\ [][(pc = "assign" /\ step' = "assign_colors") =>
          LET n == Last(select_stack)
          IN  /\ select_stack' = ListPop(select_stack)
              /\ color[n] = NoReg
              /\ color'[n] # NoReg
              /\ \A k \in Regs \ {n} : color'[k] = color[k]]_vars
  /\ []((pc = "assign" /\ step = "break") =>
          /\ Range(select_stack) = nodes \ precolored
          /\ Len(select_stack) = Cardinality(nodes \ precolored))
  /\ [](Returned => select_stack = <<>> /\ \A n \in nodes : color[n] # NoReg)

\* in assign_colors, with a node of the stack colored and two still on it
C14_Witness ==
  /\ pc = "assign"
  /\ step = "assign_colors"
  /\ Len(select_stack) >= 2
  /\ \E n \in nodes \ precolored : color[n] # NoReg

\* the alloc_var calls of trace with a key that an earlier call had
RepeatedAllocs ==
  {j \in DOMAIN trace :
     /\ trace[j].op = "alloc_var"
     /\ \E i \in 1..(j - 1) : trace[i].op = "alloc_var" /\ trace[i].arg = trace[j].arg}

\* C15: an alloc_var call with a key that was used before returns what the
\* first call with that key returned, whatever its size, and leaves stacksize
\* as the call before it left it.
C15_AllocVarStable ==
  \A j \in RepeatedAllocs :
    /\ \A i \in 1..(j - 1) :
         (trace[i].op = "alloc_var" /\ trace[i].arg = trace[j].arg)
           => trace[j].ret = trace[i].ret
    /\ trace[j].stack = trace[j - 1].stack

\* a key is asked for again with another size, after another key got a slot
C15_Witness ==
  \E j \in RepeatedAllocs : \E i \in 1..(j - 1) : \E k \in 1..(j - 1) :
    /\ i < k
    /\ trace[i].op = "alloc_var" /\ trace[i].arg = trace[j].arg
    /\ trace[i].size # trace[j].size
    /\ trace[k].op = "alloc_var" /\ trace[k].arg # trace[j].arg

\* the pairs of add_constant calls of trace with equal values
EqualConstants ==
  {p \in (DOMAIN trace) \X (DOMAIN trace) :
     /\ p[1] < p[2]
     /\ trace[p[1]].op = "add_constant" /\ trace[p[2]].op = "add_constant"
     /\ trace[p[1]].arg = trace[p[2]].arg}

\* a literal pool was emitted between the calls i and j
EmittedBetween(i, j) ==
  \E k \in (i + 1)..(j - 1) : trace[k].op \in {"between_blocks", "epilogue"}

CallDone == call_ins # <<>> /\ ip = Len(call_ins) + 1

\* C17: after the sequence of make_call has run, every register that was
\* live over the call holds the value it had before, and SP is back at its
\* initial value.
C17_CallRestores ==
  CallDone =>
    /\ \A k \in DOMAIN live_regs : xregs[live_regs[k]] = RegBefore(live_regs[k])
    /\ xsp = SP0

\* C18: whenever assign_colors is about to pop a node, the registers of the
\* node's class minus the aliases of the colors of its adjacent nodes are not
\* all taken, and alloc_frame never ends in the assertion of assign_colors.
C18_OkRegsNonEmpty ==
  /\ (pc = "assign" /\ select_stack # <<>>)
       => ok_regs(unmask_node(Cur, Last(select_stack)), Last(select_stack)) # {}
  /\ ~(pc = "raised" /\ error = "AssertionError" /\ step = "assign_colors")

\* assign_colors has just colored a node next to a node whose color takes a
\* register of its class away
C18_Witness ==
  /\ pc = "assign"
  /\ step = "assign_colors"
  /\ \E n \in nodes \ precolored :
       /\ n \notin masked
       /\ color[n] # NoReg
       /\ \E m \in adjecent(Cur, n) :
            /\ color[m] # NoReg
            /\ alias(color[m]) \cap cls_regs(reg_class[n]) # {}

\* C19: the assertion of freeze, "v in self.freeze_worklist", never fails.
C19_FreezeAssertHolds ==
  ~(pc = "raised" /\ error = "AssertionError" /\ step = "freeze")

\* the graph build makes of the input, before any node is masked or combined
PlainGraph ==
  LET rs == RegsOf(code)
  IN  [nodes |-> rs,
       adj |-> calculate_interference(code, calculate_liveness(code)),
       masked |-> {},
       reg_class |-> [r \in Regs |-> IF r \in rs THEN RegType(r) ELSE NoReg],
       is_colored |-> [r \in Regs |-> r \in rs /\ InitColor(r) # -1]]

\* the run in which no move is ever combined: simplify and freeze take the
\* trivially colorable nodes away until none is left to take
RECURSIVE PlainRun(_)
PlainRun(S) ==
  LET ready == {n \in S.nodes \ S.masked : ~S.is_colored[n] /\ is_colorable(S, n)}
  IN  IF ready = {} THEN S
      ELSE PlainRun([S EXCEPT !.masked = @ \cup ready])

\* that run ends with every node that is not pre-colored on the stack
PlainCompletes ==
  LET S == PlainRun(PlainGraph)
  IN  \A n \in S.nodes : ~S.is_colored[n] => n \in S.masked

\* C20: on every input on which the run without combining completes without
\* the spill branch, alloc_frame does not reach the spill branch.
C20_Conservative ==
  (round = 1 /\ pc = "raised" /\ error = "NotImplementedError") => ~PlainCompletes

\* C21 as stated: when coalesc combines a node v into a pre-colored node u,
\* the class of v is a subclass of the class of u, and every node adjacent to
\* v is pre-colored, trivially colorable or adjacent to u.
C21_FitsWithin ==
  [][(pc = "loop" /\ step' = "coalesc") =>
       \A v \in nodes \ nodes' :
         LET u == temp_map'[v]
         IN  u \in precolored =>
               /\ issubclass(reg_class[v], reg_class[u])
               /\ \A t \in adjecent(Cur, v) : ok(Cur, t, u)]_vars

\* C21: when coalesc combines a node v into a pre-colored node u, the class
\* of u is a subclass of the class of v (the register of u is one that v may
\* get), v is not pre-colored, and every node adjacent to v is pre-colored,
\* trivially colorable or adjacent to u.
C21_ColorFits ==
  [][(pc = "loop" /\ step' = "coalesc") =>
       \A v \in nodes \ nodes' :
         LET u == temp_map'[v]
         IN  u \in precolored =>
               /\ v \notin precolored
               /\ issubclass(reg_class[u], reg_class[v])
               /\ color[u] \in cls_regs(reg_class[v])
               /\ \A t \in adjecent(Cur, v) : ok(Cur, t, u)]_vars

\* a node of a larger class was combined into a pre-colored node that has a
\* neighbour
C21_Witness ==
  /\ step = "coalesc"
  /\ \E v \in RegsOf(code) \ nodes :
       /\ temp_map[v] \in precolored
       /\ RegType(v) # RegType(temp_map[v])
       /\ \E t \in nodes : {t, temp_map[v]} \in adj

\* C22: at the start of every turn of the main loop every node on
\* simplifyWorklist is trivially colorable and has no move in worklistMoves or
\* activeMoves.
C22_SimplifyWorklistSound ==
  pc = "loop" =>
    \A n \in Range(simplifyWorklist) :
      is_colorable(Cur, n) /\ ~is_move_related(Cur, n)

\* a node that has moves, all of them settled, waits on simplifyWorklist next
\* to a neighbour
C22_Witness ==
  /\ pc = "loop"
  /\ \E n \in Range(simplifyWorklist) :
       node_moves[n] # {} /\ adjecent(Cur, n) # {}

\* C23: at the start of every turn of the main loop every node on
\* freeze_worklist is trivially colorable and has a move in worklistMoves or
\* activeMoves.
C23_FreezeWorklistSound ==
  pc = "loop" =>
    \A n \in Range(freeze_worklist) :
      is_colorable(Cur, n) /\ is_move_related(Cur, n)

\* a node with a neighbour waits on freeze_worklist for a move that coalesc
\* has put in activeMoves
C23_Witness ==
  /\ pc = "loop"
  /\ \E n \in Range(freeze_worklist) :
       NodeMoves(Cur, n) \cap activeMoves # {} /\ adjecent(Cur, n) # {}

LiveNodes == nodes \ masked

\* the moves still to be settled
OpenMoves == worklistMoves \cup activeMoves

\* C25 as stated: every turn of the main loop takes a node out of the live
\* graph or a move out of worklistMoves \cup activeMoves.
C25_EveryTurnShrinks ==
  [][(pc = "loop" /\ pc' = "loop") =>
       \/ (LiveNodes' \subseteq LiveNodes /\ LiveNodes' # LiveNodes)
       \/ (OpenMoves' \subseteq OpenMoves /\ OpenMoves' # OpenMoves)]_vars

\* C25: every turn of the main loop takes a node out of the live graph, or
\* leaves the graph alone and takes a move out of worklistMoves \cup
\* activeMoves, or is a coalesc step that leaves both alone and passes its
\* move from worklistMoves to activeMoves; no turn adds a node, and a move
\* goes back from activeMoves to worklistMoves only in a turn that takes a
\* node out of the graph.
C25_TurnShrinksOrParks ==
  [][(pc = "loop" /\ pc' = "loop") =>
       /\ LiveNodes' \subseteq LiveNodes
       /\ OpenMoves' \subseteq OpenMoves
       /\ \/ LiveNodes' # LiveNodes
          \/ OpenMoves' # OpenMoves
          \/ /\ step' = "coalesc"
             /\ \E m \in worklistMoves :
                  /\ worklistMoves' = worklistMoves \ {m}
                  /\ activeMoves' = activeMoves \cup {m}
       /\ (worklistMoves' \ worklistMoves # {}) => LiveNodes' # LiveNodes]_vars

\* coalesc has just put a move in activeMoves and moves are left to look at
C25_Witness ==
  /\ pc = "loop"
  /\ step = "coalesc"
  /\ activeMoves # {}
  /\ worklistMoves # {}
  /\ coalescedMoves = {}
  /\ constrainedMoves = {}

\* C26 as stated: when the main loop is left by its break, worklistMoves and
\* activeMoves are empty and every move of the frame is in exactly one of
\* coalescedMoves, constrainedMoves and frozenMoves.
C26_MovesSettled ==
  pc \in {"assign", "apply", "done"} =>
    /\ worklistMoves = {}
    /\ activeMoves = {}
    /\ coalescedMoves \cup constrainedMoves \cup frozenMoves = moves
    /\ coalescedMoves \cap constrainedMoves = {}
    /\ coalescedMoves \cap frozenMoves = {}
    /\ constrainedMoves \cap frozenMoves = {}

\* the moves both of whose registers are in pre-colored nodes now
BetweenPrecolored ==
  {m \in moves : /\ temp_map[MoveDst(code, m)] \in precolored
                 /\ temp_map[MoveSrc(code, m)] \in precolored}

\* C26: when the main loop is left by its break, worklistMoves is empty and
\* activeMoves holds only moves between two pre-colored nodes; every move of
\* the frame is in exactly one of coalescedMoves, constrainedMoves,
\* frozenMoves and activeMoves.
C26_MovesSettledOrStuck ==
  pc \in {"assign", "apply", "done"} =>
    /\ worklistMoves = {}
    /\ activeMoves \subseteq BetweenPrecolored
    /\ coalescedMoves \cup constrainedMoves \cup frozenMoves \cup activeMoves = moves
    /\ coalescedMoves \cap constrainedMoves = {}
    /\ coalescedMoves \cap frozenMoves = {}
    /\ constrainedMoves \cap frozenMoves = {}
    /\ activeMoves \cap (coalescedMoves \cup constrainedMoves \cup frozenMoves) = {}

\* the loop was left with a move in activeMoves and a coalesced move
C26_Witness ==
  /\ pc = "assign"
  /\ step = "break"
  /\ round = 1
  /\ activeMoves # {}
  /\ coalescedMoves # {}

\* the instructions of the input list that are no longer in the list
RemovedInstructions == {i \in DOMAIN code : ~InSeq(i, instructions)}

\* C27: after alloc_frame returns, every instruction that was deleted from the
\* list is a move whose source and destination register belong to the temps
\* of one node and carry the same color: an identity move.
C27_RemovedMovesIdentity ==
  Returned =>
    \A i \in RemovedInstructions :
      /\ code[i].ismove
      /\ temp_map[MoveDst(code, i)] = temp_map[MoveSrc(code, i)]
      /\ regcolor[MoveDst(code, i)] # -1
      /\ regcolor[MoveDst(code, i)] = regcolor[MoveSrc(code, i)]

\* a returned first run that deleted a move between two different registers
\* and kept a move whose registers got different colors
C27_Witness ==
  /\ Returned
  /\ round = 1
  /\ \E i \in RemovedInstructions : MoveDst(code, i) # MoveSrc(code, i)
  /\ \E i \in Range(instructions) :
       /\ code[i].ismove
       /\ regcolor[MoveDst(code, i)] # regcolor[MoveSrc(code, i)]

\* the move m joins two nodes that are not pre-colored, do not interfere and
\* have register classes of which neither is a subclass of the other
IncomparableMove(m) ==
  LET x == Node(Cur, MoveDst(code, m))
      y == Node(Cur, MoveSrc(code, m))
  IN  /\ x # y
      /\ x \notin precolored /\ y \notin precolored
      /\ ~has_edge(Cur, x, y)
      /\ ~issubclass(reg_class[x], reg_class[y])
      /\ ~issubclass(reg_class[y], reg_class[x])

\* C28: a coalesc step that examines a move between two nodes that are not
\* pre-colored, do not interfere and have incomparable register classes ends
\* alloc_frame with the class-mismatch error, and the graph, the node
\* worklists and the select stack are as they were before the step.
C28_ClassMismatchRaised ==
  [][(pc = "loop" /\ step' = "coalesc") =>
       \A m \in worklistMoves \ worklistMoves' :
         IncomparableMove(m) =>
           /\ pc' = "raised"
           /\ error' = "ClassMismatch"
           /\ UNCHANGED <<nodes, temp_map, temps, color, reg_class, adj,
                          masked, is_colored, spillWorklist, freeze_worklist,
                          simplifyWorklist, select_stack, coalescedMoves>>]_vars

\* alloc_frame has ended with the class-mismatch error on a move between two
\* virtual registers, after an earlier move was coalesced
C28_Witness ==
  /\ pc = "raised"
  /\ error = "ClassMismatch"
  /\ step = "coalesc"
  /\ coalescedMoves # {}
  /\ \E m \in moves \ (worklistMoves \cup coalescedMoves \cup constrainedMoves
                         \cup frozenMoves \cup activeMoves) :
       IncomparableMove(m)

\* the node n and its unmasked neighbours all have one register class; the
\* registers of a class do not alias one another, so for n the graph is one
\* of a single class without aliasing
OneClassAround(n) == \A t \in adjecent(Cur, n) : reg_class[t] = reg_class[n]

\* C29: for a node n that is not pre-colored and sees a single register class
\* of K registers, is_colorable(n) equals (number of unmasked neighbours of
\* n) < K; a pre-colored node is always reported colorable.
C29_DegreeLessK ==
  /\ \A n \in nodes \ precolored :
       OneClassAround(n) =>
         (is_colorable(Cur, n) <=>
            Cardinality(adjecent(Cur, n)) < K(reg_class[n]))
  /\ \A n \in precolored : is_colorable(Cur, n)

\* in the main loop, among nodes of the class of two registers: a node that
\* is not pre-colored, has two unmasked neighbours and is not colorable, next
\* to a pre-colored node with two unmasked neighbours, which is colorable
C29_Witness ==
  /\ pc = "loop"
  /\ \E n \in nodes \ precolored :
       /\ reg_class[n] = "G" /\ OneClassAround(n)
       /\ Cardinality(adjecent(Cur, n)) = 2
       /\ ~is_colorable(Cur, n)
  /\ \E n \in precolored :
       /\ reg_class[n] = "G" /\ OneClassAround(n)
       /\ Cardinality(adjecent(Cur, n)) = 2
       /\ is_colorable(Cur, n)

\* A third family of runs: one allocator object used on one frame after the
\* other. The frames name the virtual registers a (class G), c (class S) and
\* d (class P), with any interference between them and at most one move.
ReuseRegs == {"a", "c", "d"}

ReuseFrames ==
  {Program(E, M) : E \in EdgeSets(ReuseRegs),
                   M \in {<<>>} \cup {<<p>> : p \in ReuseRegs \X ReuseRegs}}

ReuseInit ==
  /\ code \in ReuseFrames
  /\ instructions = [i \in DOMAIN code |-> i]
  /\ pc = "start"
  /\ AllocFresh
  /\ RiscvIdle
  /\ LoaderIdle

\* alloc_frame is called with another frame on the allocator object whose
\* last call has returned or has raised: the frame is new (its registers are
\* not colored, it has no cfg and no ig yet), the fields of the allocator are
\* as the last call left them.
alloc_frame_other ==
  /\ pc \in {"done", "raised"}
  /\ round < MaxRounds
  /\ round' = round + 1
  /\ code' \in ReuseFrames
  /\ instructions' = [i \in DOMAIN code' |-> i]
  /\ regcolor' = [r \in Regs |-> InitColor(r)]
  /\ cfg' = <<>>
  /\ nodes' = {}
  /\ temp_map' = [r \in Regs |-> NoReg]
  /\ temps' = [r \in Regs |-> {}]
  /\ color' = [r \in Regs |-> NoReg]
  /\ reg_class' = [r \in Regs |-> NoReg]
  /\ adj' = {}
  /\ masked' = {}
  /\ node_moves' = [r \in Regs |-> {}]
  /\ is_colored' = [r \in Regs |-> FALSE]
  /\ error' = "none"
  /\ pc' = "start"
  /\ step' = "none"
  /\ UNCHANGED <<wat_vars, rv_vars, precolored, initial, moves, coalescedMoves,
                 constrainedMoves, frozenMoves, activeMoves, worklistMoves,
                 spillWorklist, freeze_worklist, simplifyWorklist,
                 select_stack>>

ReuseNext ==
  \/ alloc_frame_other
  \/ alloc_frame_again
  \/ Build
  \/ makeWorkList
  \/ Simplify
  \/ Coalesc
  \/ Freeze
  \/ Spill
  \/ Break
  \/ AssignColor
  \/ remove_redundant_moves
  \/ apply_colors

ReuseSpec == ReuseInit /\ [][ReuseNext]_vars

\* what init_data and build compute from the frame alone (its instruction
\* list and the colors of its registers): the graph and the move sets
FreshGraph ==
  LET L == calculate_liveness(code)
      rs == RegsOf(code)
      pre == {r \in rs : regcolor[r] # -1}
      mvs == {i \in DOMAIN code : code[i].ismove}
  IN  /\ error = "none"
      /\ cfg = L
      /\ nodes = rs
      /\ temp_map = [r \in Regs |-> IF r \in rs THEN r ELSE NoReg]
      /\ temps = [r \in Regs |-> IF r \in rs THEN {r} ELSE {}]
      /\ color = [r \in Regs |-> IF r \in pre THEN get_register(regcolor[r])
                                              ELSE NoReg]
      /\ reg_class = [r \in Regs |-> IF r \in rs THEN RegType(r) ELSE NoReg]
      /\ is_colored = [r \in Regs |-> r \in pre]
      /\ adj = calculate_interference(code, L)
      /\ masked = {}
      /\ node_moves = [r \in Regs |->
           {m \in mvs : r = MoveSrc(code, m) \/ r = MoveDst(code, m)}]
      /\ precolored = pre
      /\ moves = mvs
      /\ coalescedMoves = {}
      /\ constrainedMoves = {}
      /\ frozenMoves = {}
      /\ activeMoves = {}

\* the state after build when the call reads nothing but its frame
FreshBuilt ==
  /\ FreshGraph
  /\ initial = nodes \ precolored
  /\ worklistMoves = {}

\* the state after makeWorkList when the call reads nothing but its frame:
\* the nodes that are not pre-colored, in some order, divided over the lists
FreshStart ==
  /\ FreshGraph
  /\ initial = {}
  /\ worklistMoves = moves
  /\ select_stack = <<>>
  /\ \E ord \in Orders(nodes \ precolored) :
       /\ spillWorklist = FilterSeq(Cur, ord, "spill")
       /\ freeze_worklist = FilterSeq(Cur, ord, "freeze")
       /\ simplifyWorklist = FilterSeq(Cur, ord, "simplify")

\* C30: whatever calls of alloc_frame the allocator object has been through,
\* one that returned or one that raised, on this frame or on another, the
\* state after build and the state after makeWorkList are functions of the
\* frame alone (up to the order in which a set is iterated): every move set,
\* the graph, every node worklist and the select stack is re-initialised
\* before it is read, so the outcome of the call does not depend on the
\* earlier calls.
C30_Reinitialised ==
  /\ pc = "built" => FreshBuilt
  /\ (pc = "loop" /\ step = "makeWorkList") => FreshStart

\* the second call, on an uncolored frame with a move, has passed build, and
\* the call before it raised: it left a node in spillWorklist and a node on
\* the select stack, which makeWorkList has not replaced yet
C30_Witness ==
  /\ round = 2
  /\ pc = "built"
  /\ moves # {}
  /\ \A r \in nodes : regcolor[r] = -1
  /\ spillWorklist # <<>>
  /\ select_stack # <<>>
  /\ Range(spillWorklist) \cup Range(select_stack) # nodes

\* the alloc_var calls of trace whose key no earlier call had: each handed
\* its key the bytes [ret, ret + size)
FirstAllocs ==
  {j \in DOMAIN trace :
     /\ trace[j].op = "alloc_var"
     /\ \A i \in 1..(j - 1) : ~(trace[i].op = "alloc_var" /\ trace[i].arg = trace[j].arg)}

RECURSIVE SumSizes(_)
SumSizes(J) ==
  IF J = {} THEN 0
  ELSE LET j == CHOOSE j \in J : TRUE
       IN  trace[j].size + SumSizes(J \ {j})

\* C31: the byte ranges [offset, offset + size) that alloc_var handed to
\* distinct keys are pairwise disjoint and lie between the initial stacksize
\* (0) and stacksize, the offset of a key is the one its first call returned,
\* and stacksize has grown by the sum of the sizes of the first call of each
\* key.
C31_SlotsDisjoint ==
  /\ \A i \in FirstAllocs : \A j \in FirstAllocs :
       i # j => \/ trace[i].ret + trace[i].size <= trace[j].ret
                \/ trace[j].ret + trace[j].size <= trace[i].ret
  /\ \A i \in FirstAllocs :
       /\ 0 <= trace[i].ret
       /\ trace[i].ret + trace[i].size <= stacksize
       /\ locVars[trace[i].arg] = trace[i].ret
  /\ DOMAIN locVars = {trace[i].arg : i \in FirstAllocs}
  /\ stacksize = SumSizes(FirstAllocs)

\* two keys got slots of different sizes, and a key was asked for again with
\* another size than on its first call
C31_Witness ==
  /\ \E i \in FirstAllocs : \E j \in FirstAllocs :
       /\ i < j
       /\ trace[i].size # trace[j].size
       /\ trace[j].ret = trace[i].ret + trace[i].size
  /\ \E j \in RepeatedAllocs : \E i \in FirstAllocs :
       trace[i].arg = trace[j].arg /\ trace[i].size # trace[j].size

\* the add_constant calls of trace
AddCalls == {i \in DOMAIN trace : trace[i].op = "add_constant"}

\* the places where litpool has emitted Label(l)
LabelItems(l) ==
  {k \in DOMAIN emitted : emitted[k].kind = "Label" /\ emitted[k].lab = l}

\* the entries of the pool that wait under the label l
PoolEntries(l) == {k \in DOMAIN constants : constants[k].lab = l}

\* Label(l) at place k of emitted is followed by the data of the value v
DataFollows(k, v) ==
  IF ValueType(v) \in {"int", "str"}
    THEN /\ k + 1 \in DOMAIN emitted
         /\ emitted[k + 1].kind = "dcd" /\ emitted[k + 1].val = v
    ELSE \A b \in DOMAIN ValueBytes(v) :
           /\ k + b \in DOMAIN emitted
           /\ emitted[k + b].kind = "Db"
           /\ emitted[k + b].val = ValueBytes(v)[b]

\* C32: no label is returned by add_constant for two different values; every
\* label it returned is either still in the pool, once, or was emitted by
\* litpool, once, as a Label followed by the data of its value; and after
\* between_blocks or epilogue the pool is empty, so that every label returned
\* so far is emitted exactly once.
C32_LabelsEmittedOnce ==
  /\ \A i \in AddCalls : \A j \in AddCalls :
       trace[i].ret = trace[j].ret => trace[i].arg = trace[j].arg
  /\ \A i \in AddCalls :
       LET l == trace[i].ret
           v == trace[i].arg
       IN  /\ Cardinality(LabelItems(l)) + Cardinality(PoolEntries(l)) = 1
           /\ \A k \in LabelItems(l) : emitted[k].val = v /\ DataFollows(k, v)
           /\ \A k \in PoolEntries(l) : constants[k].val = v
  /\ (trace # <<>> /\ trace[Len(trace)].op \in {"between_blocks", "epilogue"})
       => constants = <<>>

\* a byte sequence was added, the pool was emitted by between_blocks, the
\* byte sequence was added again, and the final epilogue has emitted the
\* pool: two labels, each emitted once
C32_Witness ==
  /\ Len(trace) = 4
  /\ trace[1].op = "add_constant" /\ ValueType(trace[1].arg) = "bytes"
  /\ trace[2].op = "between_blocks"
  /\ trace[3].op = "add_constant" /\ trace[3].arg = trace[1].arg
  /\ trace[4].op = "epilogue"
  /\ trace[3].ret # trace[1].ret
  /\ \A i \in {1, 3} : Cardinality(LabelItems(trace[i].ret)) = 1

(***************************************************************************)
(* WatTupleLoader (ppci/wasm/wat.py): the ids of the loaded definitions    *)
(***************************************************************************)
\* str(n) for a natural number n
Digit == <<"0", "1", "2", "3", "4", "5", "6", "7", "8", "9">>

RECURSIVE ToStr(_)
ToStr(n) ==
  IF n < 10 THEN Digit[n + 1] ELSE ToStr(n \div 10) \o Digit[(n % 10) + 1]

\* the ids a definition may be written with; NoId: written without an id
NoId == "none"

ExplicitIds == {"$1", "$f"}

\* the reference of a type use "(type $t)"
TypeRef == "$t"

\* the kinds of an import
ImportKinds == {"func", "table", "memory", "global"}

\* a definition object: the section its class is filed under (__name__),
\* its kind (of an import or export), its id and its type reference
Definition(name, kind, id, ref) ==
  [name |-> name, kind |-> kind, id |-> id, ref |-> ref]

\* the loader between two calls: its definitions, and the log of the
\* definitions it added, each with whether its id came from gen_id for its
\* own kind
Loader == [definitions |-> definitions, loads |-> loads]

\* '${}'.format(len(self.definitions[kind]))
gen_id(W, kind) == "$" \o ToStr(Len(W.definitions[kind]))

\* self.definitions[definition.__name__].append(definition)
add_definition(W, definition, generated) ==
  [definitions |-> [W.definitions EXCEPT ![definition.name] = Append(@, definition)],
   loads |-> Append(W.loads, [def |-> definition, generated |-> generated])]

\* _parse_optional_id(default): the id that is written, or the default
parse_optional_id(written, default) == IF written # NoId THEN written ELSE default

\* _parse_type_use: "(type ref)" gives the reference; otherwise a Type with a
\* generated id is added for the signature. The loader after it and the
\* reference.
parse_type_use(W, typed) ==
  IF typed
    THEN [W |-> W, ref |-> TypeRef]
    ELSE LET ref == gen_id(W, "type")
         IN  [W |-> add_definition(W, Definition("type", "type", ref, NoId), TRUE),
              ref |-> ref]

\* _parse_inline_export: an Export is added for each "(export name)"
parse_inline_export(W, exported, kind, ref) ==
  IF exported
    THEN add_definition(W, Definition("export", kind, NoId, ref), FALSE)
    ELSE W

StoreLoader(W) ==
  /\ definitions' = W.definitions
  /\ loads' = W.loads
  /\ UNCHANGED rv_vars
  /\ allocator_unchanged

\* load_type: "(type id? (func ...))"
load_type(written) ==
  /\ Len(loads) < MaxDefs
  /\ LET id == parse_optional_id(written, gen_id(Loader, "type"))
     IN  StoreLoader(
           add_definition(Loader, Definition("type", "type", id, NoId), written = NoId))

\* load_import: "(import modname name (kind id? ...))"
load_import(kind, written, typed) ==
  /\ Len(loads) < MaxDefs
  /\ LET id == parse_optional_id(written, gen_id(Loader, kind))
         W1 == IF kind = "func" /\ ~typed
                 THEN add_definition(Loader, Definition("type", "type", id, NoId), FALSE)
                 ELSE Loader
         ref == IF kind = "func" THEN (IF typed THEN TypeRef ELSE id) ELSE NoId
     IN  StoreLoader(
           add_definition(W1, Definition("import", kind, id, ref), written = NoId))

\* load_func: "(func id? (export name)? (import modname name)? ...)"
load_func(written, exported, imported, typed) ==
  /\ Len(loads) < MaxDefs
  /\ LET id == parse_optional_id(written, gen_id(Loader, "func"))
         W1 == parse_inline_export(Loader, exported, "func", id)
         T == parse_type_use(W1, typed)
     IN  StoreLoader(
           add_definition(T.W,
             IF imported THEN Definition("import", "func", id, T.ref)
                         ELSE Definition("func", "func", id, T.ref),
             written = NoId))

\* a loader right after WatTupleLoader.__init__
WatInit ==
  /\ code = <<>>
  /\ instructions = <<>>
  /\ pc = "idle"
  /\ AllocFresh
  /\ RiscvIdle
  /\ LoaderIdle

WatNext ==
  \/ \E written \in ExplicitIds \cup {NoId} : load_type(written)
  \/ \E kind \in ImportKinds : \E written \in ExplicitIds \cup {NoId} :
       \E typed \in BOOLEAN : load_import(kind, written, typed)
  \/ \E written \in ExplicitIds \cup {NoId} : \E exported \in BOOLEAN :
       \E imported \in BOOLEAN : \E typed \in BOOLEAN :
         load_func(written, exported, imported, typed)

WatSpec == WatInit /\ [][WatNext]_vars

\* the kind of a definition with an id: of an import, the kind it imports
KindOf(d) == IF d.name = "import" THEN d.kind ELSE d.name

\* C33: an id that gen_id(kind) produced for a definition written without an
\* id differs from the id of every definition of that kind loaded before it,
\* explicit or generated, imported or defined in the module.
C33_GeneratedIdsFresh ==
  \A j \in DOMAIN loads :
    loads[j].generated =>
      \A i \in 1..(j - 1) :
        (loads[i].def.id # NoId /\ KindOf(loads[i].def) = KindOf(loads[j].def))
          => loads[i].def.id # loads[j].def.id

====
